---- MODULE Spec2Model ----
(***************************************************************************)
(* Safe SQL Gateway of nl-to-sql-solution (src/main.py,                    *)
(* src/mock_banking_data.py): statement validator, limit and dialect       *)
(* normalizer, engine registry, execution router, mock simulator and the   *)
(* /query request pipeline.                                                *)
(*                                                                         *)
(* Text is modelled as a sequence of lexemes (the pieces the sqlparse      *)
(* lexer cuts a string into): a Python str is a Seq(Lexemes), and the      *)
(* string operations of the source (strip, rstrip, upper, `in`, re.sub,    *)
(* split) are operators on such sequences.                                 *)
(***************************************************************************)
EXTENDS Integers, Sequences, FiniteSets, TLC

VARIABLES
    arg,              \* input of a direct call of validate_sql / the normalizer
    out,              \* the results of the direct calls made so far
    now,              \* time_module.time(), in seconds
    request_tracker,  \* request_tracker: client ip -> deque of timestamps
    urls,             \* POSTGRES_URL / MYSQL_URL / ORACLE_URL
    ENGINE_CACHE,     \* _ENGINE_CACHE: backend -> engine (0: no entry)
    engines_created,  \* number of create_engine calls that returned
    MOCK_CUSTOMERS,   \* mock_banking_data.MOCK_CUSTOMERS
    MOCK_TRANSACTIONS,\* mock_banking_data.MOCK_TRANSACTIONS
    MOCK_LOANS,       \* mock_banking_data.MOCK_LOANS
    pc,               \* position of the request being handled by query_endpoint
    req,              \* the request: client ip, candidate SQL, backend
    verdict,          \* (is_valid, error_message) of validate_sql
    adapted_sql,      \* adapted_sql of query_endpoint
    calls,            \* functions invoked for the current request, in order
    db_log,           \* statements and events on the live connection, in order
    live_rows,        \* the rows the live engine yielded for the current request
    response,         \* what the request ended with
    threads           \* the get_engine calls of concurrent threads, one per thread

vars == <<arg, out, now, request_tracker, urls, ENGINE_CACHE, engines_created,
          MOCK_CUSTOMERS, MOCK_TRANSACTIONS, MOCK_LOANS, pc, req, verdict,
          adapted_sql, calls, db_log, live_rows, response, threads>>

-----------------------------------------------------------------------------
(* Text: lexemes and the string operations of the source                   *)

WsLexemes == {" "}
CommentLexemes == {"/*c*/"}
DigitLexemes == {"3", "5", "7", "1000", "5000"}
\* digits with a sign: int() reads them, \d+ does not match them
SignedLexemes == {"-3"}

Lexemes ==
    WsLexemes \cup CommentLexemes \cup DigitLexemes \cup SignedLexemes \cup
    {";", "(", ")", "SELECT", "select", "DROP", "delete", "SHOW", "FROM", "*",
     "ALL", "s", "TABLE", "transactions", "loans", "active", "inactive",
     "customer_id",
     "first_name", "customers", "t", "created_at", "credit_limit", "credit_",
     "LIMIT", "limit", "FETCH", "FIRST", "ROWS", "ONLY"}

\* str.upper() of one lexeme
Upper(l) ==
    CASE l = "select"       -> "SELECT"
      [] l = "delete"       -> "DELETE"
      [] l = "limit"        -> "LIMIT"
      [] l = "first_name"   -> "FIRST_NAME"
      [] l = "customers"    -> "CUSTOMERS"
      [] l = "transactions" -> "TRANSACTIONS"
      [] l = "loans"        -> "LOANS"
      [] l = "active"       -> "ACTIVE"
      [] l = "inactive"     -> "INACTIVE"
      [] l = "customer_id"  -> "CUSTOMER_ID"
      [] l = "t"            -> "T"
      [] l = "created_at"   -> "CREATED_AT"
      [] l = "credit_limit" -> "CREDIT_LIMIT"
      [] l = "credit_"      -> "CREDIT_"
      [] l = "/*c*/"        -> "/*C*/"
      [] OTHER              -> l

\* the upper-cased words that occur as substrings of Upper(l), among the words
\* the source tests with `in`
Marks(l) ==
    CASE Upper(l) = "DROP"         -> {"DROP"}
      [] Upper(l) = "DELETE"       -> {"DELETE"}
      [] Upper(l) = "CREATED_AT"   -> {"CREATE"}
      [] Upper(l) = "LIMIT"        -> {"LIMIT"}
      [] Upper(l) = "CREDIT_LIMIT" -> {"LIMIT", "CREDIT"}
      [] Upper(l) = "CREDIT_"      -> {"CREDIT"}
      [] Upper(l) = "CUSTOMERS"    -> {"CUSTOMERS", "CUSTOMER"}
      [] Upper(l) = "TRANSACTIONS" -> {"TRANSACTIONS"}
      [] Upper(l) = "LOANS"        -> {"LOANS"}
      [] Upper(l) = "ACTIVE"       -> {"ACTIVE"}
      [] Upper(l) = "INACTIVE"     -> {"INACTIVE", "ACTIVE"}
      [] Upper(l) = "CUSTOMER_ID"  -> {"CUSTOMER"}
      [] OTHER                     -> {}

\* `word in text.upper()` / `word.lower() in text.lower()`
Contains(text, word) == \E i \in 1..Len(text) : word \in Marks(text[i])

IsWs(l) == l \in WsLexemes

RECURSIVE lstrip(_)
lstrip(text) ==
    IF text # <<>> /\ IsWs(Head(text)) THEN lstrip(Tail(text)) ELSE text

\* str.rstrip()
RECURSIVE rstrip(_)
rstrip(text) ==
    IF text # <<>> /\ IsWs(text[Len(text)])
    THEN rstrip(SubSeq(text, 1, Len(text) - 1)) ELSE text

\* str.strip()
strip(text) == lstrip(rstrip(text))

\* str.rstrip(';')
RECURSIVE rstrip_semi(_)
rstrip_semi(text) ==
    IF text # <<>> /\ text[Len(text)] = ";"
    THEN rstrip_semi(SubSeq(text, 1, Len(text) - 1)) ELSE text

-----------------------------------------------------------------------------
(* sqlparse, as validate_sql uses it                                       *)

\* sqlparse.parse: the statement splitter. A statement ends with a ';' outside
\* parentheses and the whitespace that follows it; a trailing piece holding
\* only whitespace is no statement.
change_splitlevel(tok) == IF tok = "(" THEN 1 ELSE IF tok = ")" THEN -1 ELSE 0

RECURSIVE split_statements(_, _, _, _)
split_statements(text, cur, level, consume_ws) ==
    IF text = <<>>
    THEN IF cur # <<>> /\ \E i \in 1..Len(cur) : ~IsWs(cur[i])
         THEN <<cur>> ELSE <<>>
    ELSE LET tok == Head(text) IN
         IF consume_ws /\ ~IsWs(tok)
         THEN <<cur>> \o
              split_statements(Tail(text), <<tok>>, change_splitlevel(tok),
                               change_splitlevel(tok) <= 0 /\ tok = ";")
         ELSE split_statements(Tail(text), Append(cur, tok),
                               level + change_splitlevel(tok),
                               consume_ws \/
                               (level + change_splitlevel(tok) <= 0 /\ tok = ";"))

parse(query) == split_statements(query, <<>>, 0, FALSE)

NoToken == "<none>"

\* Statement.token_first(skip_ws=True, skip_cm=True)
RECURSIVE token_first(_)
token_first(statement) ==
    IF statement = <<>> THEN NoToken
    ELSE IF IsWs(Head(statement)) \/ Head(statement) \in CommentLexemes
         THEN token_first(Tail(statement))
         ELSE Head(statement)

-----------------------------------------------------------------------------
(* Statement validator                                                     *)

dangerous_keywords ==
    <<"INSERT", "UPDATE", "DELETE", "DROP", "ALTER", "CREATE",
      "TRUNCATE", "REPLACE", "GRANT", "REVOKE", "EXEC", "EXECUTE">>

Dangerous == {dangerous_keywords[i] : i \in 1..Len(dangerous_keywords)}

\* (is_valid, error_message); the message is its fixed wording (reason) and the
\* token or keyword it names (name)
Verdict(valid, reason, name) ==
    [is_valid |-> valid, reason |-> reason, name |-> name]

Valid == Verdict(TRUE, "None", "")

\* `for keyword in dangerous_keywords: if keyword in query_upper`: the first
\* keyword of the list found in the text, 0 if none
first_keyword_in(query) ==
    IF \E k \in 1..Len(dangerous_keywords) : Contains(query, dangerous_keywords[k])
    THEN CHOOSE k \in 1..Len(dangerous_keywords) :
            /\ Contains(query, dangerous_keywords[k])
            /\ \A j \in 1..(k - 1) : ~Contains(query, dangerous_keywords[j])
    ELSE 0

\* check_statements without the scan of the whole text
RECURSIVE check_statements_no_scan(_, _, _)
check_statements_no_scan(query, parsed, k) ==
    IF k > Len(parsed) THEN Valid
    ELSE LET first_token == token_first(parsed[k])
             stmt_value  == Upper(first_token)
         IN  IF first_token = NoToken
             THEN Verdict(FALSE, "Invalid SQL statement", "")
             ELSE IF stmt_value \in Dangerous
             THEN Verdict(FALSE, "Forbidden SQL command", stmt_value)
             ELSE IF stmt_value # "SELECT"
             THEN Verdict(FALSE, "Only SELECT queries are allowed", stmt_value)
             ELSE check_statements_no_scan(query, parsed, k + 1)

\* check_statements testing `stmt_value != 'SELECT'` before the denylist
RECURSIVE check_statements_select_first(_, _, _)
check_statements_select_first(query, parsed, k) ==
    IF k > Len(parsed) THEN Valid
    ELSE LET first_token == token_first(parsed[k])
             stmt_value  == Upper(first_token)
             kw          == first_keyword_in(query)
         IN  IF first_token = NoToken
             THEN Verdict(FALSE, "Invalid SQL statement", "")
             ELSE IF stmt_value # "SELECT"
             THEN Verdict(FALSE, "Only SELECT queries are allowed", stmt_value)
             ELSE IF stmt_value \in Dangerous
             THEN Verdict(FALSE, "Forbidden SQL command", stmt_value)
             ELSE IF kw # 0
             THEN Verdict(FALSE, "Forbidden keyword detected", dangerous_keywords[kw])
             ELSE check_statements_select_first(query, parsed, k + 1)

\* check_statements comparing first_token.value without .upper()
RECURSIVE check_statements_no_upper(_, _, _)
check_statements_no_upper(query, parsed, k) ==
    IF k > Len(parsed) THEN Valid
    ELSE LET first_token == token_first(parsed[k])
             stmt_value  == first_token
             kw          == first_keyword_in(query)
         IN  IF first_token = NoToken
             THEN Verdict(FALSE, "Invalid SQL statement", "")
             ELSE IF stmt_value \in Dangerous
             THEN Verdict(FALSE, "Forbidden SQL command", stmt_value)
             ELSE IF stmt_value # "SELECT"
             THEN Verdict(FALSE, "Only SELECT queries are allowed", stmt_value)
             ELSE IF kw # 0
             THEN Verdict(FALSE, "Forbidden keyword detected", dangerous_keywords[kw])
             ELSE check_statements_no_upper(query, parsed, k + 1)

\* the loop `for statement in parsed` from statement k on
RECURSIVE check_statements(_, _, _)
check_statements(query, parsed, k) ==
    IF k > Len(parsed) THEN Valid
    ELSE LET first_token == token_first(parsed[k])
             stmt_value  == Upper(first_token)
             kw          == first_keyword_in(query)
         IN  IF first_token = NoToken
             THEN Verdict(FALSE, "Invalid SQL statement", "")
             ELSE IF stmt_value \in Dangerous
             THEN Verdict(FALSE, "Forbidden SQL command", stmt_value)
             ELSE IF stmt_value # "SELECT"
             THEN Verdict(FALSE, "Only SELECT queries are allowed", stmt_value)
             ELSE IF kw # 0
             THEN Verdict(FALSE, "Forbidden keyword detected", dangerous_keywords[kw])
             ELSE check_statements(query, parsed, k + 1)

validate_sql(query) ==
    IF query = <<>> \/ strip(query) = <<>>
    THEN Verdict(FALSE, "Empty query provided", "")
    ELSE LET parsed == parse(query) IN
         IF parsed = <<>>
         THEN Verdict(FALSE, "Unable to parse SQL query", "")
         ELSE check_statements(query, parsed, 1)

-----------------------------------------------------------------------------
(* Limit and dialect normalizer                                            *)

MAX_ROWS == 1000

DbTypes == {"postgresql", "mysql", "oracle"}

\* int(lexeme) of a lexeme made of digits
IntOf(l) ==
    CASE l = "3" -> 3 [] l = "5" -> 5 [] l = "7" -> 7 [] l = "1000" -> 1000
      [] l = "5000" -> 5000 [] l = "-3" -> -3 [] OTHER -> -1

\* f"{n}" of an integer
StrOf(n) == CASE n = 5000 -> "5000" [] n = 3 -> "3" [] n = 5 -> "5" [] n = 7 -> "7" [] n = 1000 -> "1000" [] OTHER -> "?"

add_limit_if_missing(query, max_rows) ==
    IF ~Contains(query, "LIMIT")
    THEN rstrip_semi(rstrip(query)) \o <<" ", "LIMIT", " ", StrOf(max_rows)>>
    ELSE query

\* the lexemes whose text ends with LIMIT in some letter case, and what is
\* left of them in front of it
EndsWithLimit(l) == l \in {"LIMIT", "limit", "credit_limit"}
Stem(l) == IF l = "credit_limit" THEN <<"credit_">> ELSE <<>>

\* number of whitespace lexemes at the head of text
RECURSIVE ws_run(_)
ws_run(text) ==
    IF text # <<>> /\ IsWs(Head(text)) THEN 1 + ws_run(Tail(text)) ELSE 0

\* r"LIMIT\s+(\d+)" with re.IGNORECASE matched at the head of text: the number
\* of lexemes the match covers, 0 if it does not match there
limit_match(text) ==
    IF text # <<>> /\ EndsWithLimit(Head(text))
    THEN LET w == ws_run(Tail(text)) IN
         IF w >= 1 /\ Len(text) >= w + 2 /\ text[w + 2] \in DigitLexemes
         THEN w + 2 ELSE 0
    ELSE 0

\* re.search(r"LIMIT\s+(\d+)", sql, flags=re.IGNORECASE).group(1): the digits
\* of the first match; NoToken when there is no match
RECURSIVE limit_search(_)
limit_search(sql) ==
    IF sql = <<>> THEN NoToken
    ELSE IF limit_match(sql) > 0 THEN sql[limit_match(sql)]
    ELSE limit_search(Tail(sql))

\* re.sub(r"LIMIT\s+\d+", "", sql, flags=re.IGNORECASE)
RECURSIVE limit_sub(_)
limit_sub(sql) ==
    IF sql = <<>> THEN <<>>
    ELSE IF limit_match(sql) > 0
    THEN Stem(Head(sql)) \o limit_sub(SubSeq(sql, limit_match(sql) + 1, Len(sql)))
    ELSE <<Head(sql)>> \o limit_sub(Tail(sql))

FetchFirst(n) == <<" ", "FETCH", " ", "FIRST", " ", n, " ", "ROWS", " ", "ONLY">>

adapt_sql_for_dialect(sql, db_type) ==
    IF db_type = "oracle" /\ Contains(sql, "LIMIT") /\ limit_search(sql) # NoToken
    THEN rstrip_semi(rstrip(limit_sub(sql))) \o FetchFirst(limit_search(sql))
    ELSE sql

\* query_endpoint, step 3: limit enforcement, then dialect adaptation
normalize(sql, db_type) ==
    adapt_sql_for_dialect(add_limit_if_missing(sql, MAX_ROWS), db_type)

-----------------------------------------------------------------------------
(* Mock banking data (mock_banking_data.py)                                *)

NumSeeds == 1              \* outcomes of the random generator that are explored
NumCustomers == 12         \* customers generated (range(1, 101) in the source)
NumLoanCustomers == 7      \* customers drawn by random.sample (k=60 in the source)
MaxTxnPerCustomer == 2     \* random.randint(5, 15) in the source
MaxLoansPerCustomer == 2   \* random.randint(1, 3) in the source

\* one draw of the random module: a value in 0..(n - 1), fixed by the seed and
\* by where the draw happens
Rnd(seed, i, salt, n) ==
    ((seed * 7919 + i * 10007 + salt * 30011 + i * salt * 1013 + i * i * 71)
        % 100003) % n

first_names == <<"James", "Mary", "John", "Patricia">>
customer_segments == <<"Retail", "Premium", "Business", "Corporate", "Student">>
statuses == <<"completed", "completed", "completed", "pending", "failed">>
transaction_types == <<"ATM Withdrawal", "Deposit", "Wire Transfer", "Direct Deposit">>
loan_types == <<"Personal Loan", "Home Mortgage", "Auto Loan">>
loan_statuses == <<"Active", "Active", "Active", "Paid Off", "Defaulted", "Pending">>

Choice(list, seed, i, salt) == list[1 + Rnd(seed, i, salt, Len(list))]

\* the record appended for customer i
mock_customer(seed, i) ==
    LET segment == Choice(customer_segments, seed, i, 1) IN
    [customer_id      |-> i,
     first_name       |-> Choice(first_names, seed, i, 2),
     customer_segment |-> segment,
     credit_score     |-> IF segment \in {"Premium", "Corporate"}
                          THEN 720 + Rnd(seed, i, 3, 131)
                          ELSE IF segment = "Business"
                          THEN 680 + Rnd(seed, i, 3, 121)
                          ELSE 600 + Rnd(seed, i, 3, 181),
     signup_date      |-> Rnd(seed, i, 4, 1801),
     account_balance  |-> 500 + Rnd(seed, i, 5, 249501),
     is_active        |-> Choice(<<TRUE, TRUE, TRUE, FALSE>>, seed, i, 6)]

generate_mock_customers(seed) ==
    [i \in 1..NumCustomers |-> mock_customer(seed, i)]

\* the record appended for the k-th transaction of the c-th customer
mock_transaction(seed, c, k, transaction_id, customer_id) ==
    LET txn_type == Choice(transaction_types, seed, c * 3 + k, 8) IN
    [transaction_id   |-> transaction_id,
     customer_id      |-> customer_id,
     transaction_type |-> txn_type,
     amount           |-> IF txn_type = "Direct Deposit"
                          THEN 2000 + Rnd(seed, c * 3 + k, 9, 6001)
                          ELSE IF txn_type = "Wire Transfer"
                          THEN 500 + Rnd(seed, c * 3 + k, 9, 14501)
                          ELSE IF txn_type = "ATM Withdrawal"
                          THEN Choice(<<20, 40, 60, 80, 100, 200>>, seed, c * 3 + k, 9)
                          ELSE 10 + Rnd(seed, c * 3 + k, 9, 491),
     transaction_date |-> Rnd(seed, c * 3 + k, 10, 311),
     status           |-> Choice(statuses, seed, c * 3 + k, 11)]

\* the transactions of customers[c..], numbered from next_id on
RECURSIVE txns_from(_, _, _, _)
txns_from(customers, seed, c, next_id) ==
    IF c > Len(customers) THEN <<>>
    ELSE LET num_transactions == 1 + Rnd(seed, c, 7, MaxTxnPerCustomer)
             own == [k \in 1..num_transactions |->
                       mock_transaction(seed, c, k, next_id + k - 1,
                                        customers[c].customer_id)]
         IN own \o txns_from(customers, seed, c + 1, next_id + num_transactions)

\* generate_mock_transactions with "customer_id" taken from the next customer
generate_mock_transactions_orphans(customers, seed) ==
    [i \in 1..Len(txns_from(customers, seed, 1, 1)) |->
        [txns_from(customers, seed, 1, 1)[i] EXCEPT !.customer_id = @ + 1]]

generate_mock_transactions(customers, seed) == txns_from(customers, seed, 1, 1)

\* the stores at the size the source generates them: range(1, 101) customers
SourceCustomers == 100

\* numbers of transactions random.randint(5, 15) gives a customer
SourceTxnCounts == {5, 11}

source_customers(seed) ==
    [i \in 1..SourceCustomers |-> mock_customer(seed, i)]

\* generate_mock_transactions when every draw of randint gives num_transactions
source_transactions(customers, seed, num_transactions) ==
    [n \in 1..(Len(customers) * num_transactions) |->
        LET c == 1 + ((n - 1) \div num_transactions)
            k == 1 + ((n - 1) % num_transactions)
        IN mock_transaction(seed, c, k, n, customers[c].customer_id)]

\* random.sample(customers, k): the indices of the customers drawn
loan_customers(seed) ==
    [j \in 1..NumLoanCustomers |-> 1 + ((j + seed - 1) % NumCustomers)]

RECURSIVE loans_from(_, _, _, _)
loans_from(customers, seed, j, next_id) ==
    IF j > NumLoanCustomers THEN <<>>
    ELSE LET customer == customers[loan_customers(seed)[j]]
             num_loans == 1 + Rnd(seed, j, 12, MaxLoansPerCustomer)
             own == [k \in 1..num_loans |->
                       LET status    == Choice(loan_statuses, seed, j * 3 + k, 13)
                           principal == 5000 + Rnd(seed, j * 3 + k, 14, 30001)
                       IN
                       [loan_id             |-> next_id + k - 1,
                        customer_id         |-> customer.customer_id,
                        loan_type           |-> Choice(loan_types, seed, j * 3 + k, 15),
                        principal_amount    |-> principal,
                        outstanding_balance |-> IF status = "Paid Off" THEN 0
                                                ELSE principal \div (2 + Rnd(seed, j * 3 + k, 16, 3)),
                        interest_rate       |-> 3 + Rnd(seed, j * 3 + k, 17, 16),
                        monthly_payment     |-> principal \div 36,
                        status              |-> status]]
         IN own \o loans_from(customers, seed, j + 1, next_id + num_loans)

generate_mock_loans(customers, seed) == loans_from(customers, seed, 1, 1)

-----------------------------------------------------------------------------
(* Mock relational simulator                                               *)

Min(a, b) == IF a < b THEN a ELSE b

Max(a, b) == IF a > b THEN a ELSE b

\* results[:limit]: the first limit rows for limit >= 0, all rows but the last
\* -limit for limit < 0
Take(results, limit) ==
    IF limit >= 0
    THEN SubSeq(results, 1, Min(limit, Len(results)))
    ELSE SubSeq(results, 1, Max(Len(results) + limit, 0))

\* results.sort(key=lambda x: x[field], reverse=True): descending and stable
SortDesc(results, field) ==
    LET placed == [i \in 1..Len(results) |-> [row |-> results[i], at |-> i]]
        sorted == SortSeq(placed, LAMBDA a, b :
                     \/ a.row[field] > b.row[field]
                     \/ a.row[field] = b.row[field] /\ a.at < b.at)
    IN [p \in 1..Len(results) |-> sorted[p].row]

\* index of the last lexeme that holds "limit", 0 if none
last_limit(text) ==
    IF Contains(text, "LIMIT")
    THEN CHOOSE i \in 1..Len(text) :
            /\ "LIMIT" \in Marks(text[i])
            /\ \A j \in (i + 1)..Len(text) : "LIMIT" \notin Marks(text[j])
    ELSE 0

\* str.split()[0]: the lexemes up to the first whitespace
RECURSIVE first_word(_)
first_word(text) ==
    IF text = <<>> \/ IsWs(Head(text)) THEN <<>>
    ELSE <<Head(text)>> \o first_word(Tail(text))

\* the limit of _execute_mock_query: int() of the word that follows the last
\* "limit"; 10 when there is none, or when int() or the indexing raises. Every
\* lexeme that holds "limit" ends with it, so the text after the last "limit"
\* starts at the next lexeme.
mock_limit(query) ==
    IF Contains(query, "LIMIT")
    THEN LET limit_part == strip(SubSeq(query, last_limit(query) + 1, Len(query)))
             word       == first_word(limit_part)
         IN  IF Len(word) = 1 /\ word[1] \in DigitLexemes \cup SignedLexemes
             THEN IntOf(word[1]) ELSE 10
    ELSE 10

\* next((c for c in MOCK_CUSTOMERS if c["customer_id"] == id), None)
HasCustomer(customers, id) == \E i \in 1..Len(customers) : customers[i].customer_id = id
CustomerOf(customers, id) ==
    customers[CHOOSE i \in 1..Len(customers) :
                 /\ customers[i].customer_id = id
                 /\ \A j \in 1..(i - 1) : customers[j].customer_id # id]

\* customer_spending[id]: the amounts of the completed transactions of the
\* customer, added up in the order of the store
RECURSIVE SumAmounts(_, _)
SumAmounts(txns, id) ==
    LET own == SelectSeq(txns, LAMBDA t : t.status = "completed" /\ t.customer_id = id)
    IN IF own = <<>> THEN 0
       ELSE Head(own).amount + SumAmounts(Tail(own), id)

mock_customers_transactions(customers, txns) ==
    LET spenders == SelectSeq(customers, LAMBDA c :
                       \E i \in 1..Len(txns) : /\ txns[i].status = "completed"
                                               /\ txns[i].customer_id = c.customer_id)
        results == [i \in 1..Len(spenders) |->
                      [first_name       |-> spenders[i].first_name,
                       customer_segment |-> spenders[i].customer_segment,
                       total_spent      |-> SumAmounts(txns, spenders[i].customer_id)]]
    IN SortDesc(results, "total_spent")

mock_customers_loans(query, customers, loans) ==
    LET owned == SelectSeq(loans, LAMBDA l : HasCustomer(customers, l.customer_id))
        results == [i \in 1..Len(owned) |->
                      [first_name          |-> CustomerOf(customers, owned[i].customer_id).first_name,
                       loan_type           |-> owned[i].loan_type,
                       outstanding_balance |-> owned[i].outstanding_balance,
                       status              |-> owned[i].status,
                       credit_score        |-> CustomerOf(customers, owned[i].customer_id).credit_score]]
    IN  IF Contains(query, "DEFAULT")
        THEN SelectSeq(results, LAMBDA r : r.status \in {"Defaulted", "Pending"})
        ELSE IF Contains(query, "ACTIVE")
        THEN SelectSeq(results, LAMBDA r : r.status = "Active")
        ELSE results

mock_loans(query, loans) ==
    LET results == [i \in 1..Len(loans) |->
                      [loan_id             |-> loans[i].loan_id,
                       loan_type           |-> loans[i].loan_type,
                       principal_amount    |-> loans[i].principal_amount,
                       outstanding_balance |-> loans[i].outstanding_balance,
                       interest_rate       |-> loans[i].interest_rate,
                       monthly_payment     |-> loans[i].monthly_payment,
                       status              |-> loans[i].status]]
        filtered == IF Contains(query, "DEFAULT")
                    THEN SelectSeq(results, LAMBDA r : r.status = "Defaulted")
                    ELSE IF Contains(query, "ACTIVE")
                    THEN SelectSeq(results, LAMBDA r : r.status = "Active")
                    ELSE results
    IN  IF Contains(query, "BALANCE") \/ Contains(query, "DEBT")
        THEN SortDesc(filtered, "outstanding_balance")
        ELSE SortDesc(filtered, "principal_amount")

mock_transactions(query, customers, txns) ==
    LET joined == SelectSeq(txns, LAMBDA t : HasCustomer(customers, t.customer_id))
        results == IF Contains(query, "CUSTOMERS") \/ Contains(query, "JOIN")
                   THEN [i \in 1..Len(joined) |->
                           [transaction_id   |-> joined[i].transaction_id,
                            first_name       |-> CustomerOf(customers, joined[i].customer_id).first_name,
                            transaction_type |-> joined[i].transaction_type,
                            amount           |-> joined[i].amount,
                            transaction_date |-> joined[i].transaction_date,
                            status           |-> joined[i].status]]
                   ELSE txns
        by_status == IF Contains(query, "PENDING")
                     THEN SelectSeq(results, LAMBDA r : r.status = "pending")
                     ELSE IF Contains(query, "FAILED")
                     THEN SelectSeq(results, LAMBDA r : r.status = "failed")
                     ELSE IF Contains(query, "COMPLETED")
                     THEN SelectSeq(results, LAMBDA r : r.status = "completed")
                     ELSE results
        by_amount == IF Contains(query, "LARGE") \/ Contains(query, "HIGH")
                     THEN SelectSeq(by_status, LAMBDA r : r.amount > 1000)
                     ELSE by_status
    IN  IF Contains(query, "AMOUNT") /\ Contains(query, "ORDER")
        THEN SortDesc(by_amount, "amount")
        ELSE SortDesc(by_amount, "transaction_date")

mock_customers(query, customers) ==
    LET filtered == IF Contains(query, "PREMIUM")
                    THEN SelectSeq(customers, LAMBDA c :
                            c.customer_segment \in {"Premium", "Corporate"})
                    ELSE IF Contains(query, "ACTIVE")
                    THEN SelectSeq(customers, LAMBDA c : c.is_active)
                    ELSE IF Contains(query, "INACTIVE")
                    THEN SelectSeq(customers, LAMBDA c : ~c.is_active)
                    ELSE customers
    IN  IF Contains(query, "BALANCE") THEN SortDesc(filtered, "account_balance")
        ELSE IF Contains(query, "CREDIT") THEN SortDesc(filtered, "credit_score")
        ELSE SortDesc(filtered, "signup_date")

\* _execute_mock_query with the loans test in front of the customers and
\* loans test
execute_mock_query_loans_first(query, customers, txns, loans) ==
    LET limit == mock_limit(query) IN
    IF Contains(query, "CUSTOMERS") /\ Contains(query, "TRANSACTIONS")
    THEN Take(mock_customers_transactions(customers, txns), limit)
    ELSE IF Contains(query, "LOANS")
    THEN Take(mock_loans(query, loans), limit)
    ELSE IF Contains(query, "TRANSACTIONS")
    THEN Take(mock_transactions(query, customers, txns), limit)
    ELSE IF Contains(query, "CUSTOMERS") \/ Contains(query, "CUSTOMER")
    THEN Take(mock_customers(query, customers), limit)
    ELSE Take(customers, limit)

\* _execute_mock_query over the three record sets
execute_mock_query(query, customers, txns, loans) ==
    LET limit == mock_limit(query) IN
    IF Contains(query, "CUSTOMERS") /\ Contains(query, "TRANSACTIONS")
    THEN Take(mock_customers_transactions(customers, txns), limit)
    ELSE IF Contains(query, "CUSTOMERS") /\ Contains(query, "LOANS")
    THEN Take(mock_customers_loans(query, customers, loans), limit)
    ELSE IF Contains(query, "LOANS")
    THEN Take(mock_loans(query, loans), limit)
    ELSE IF Contains(query, "TRANSACTIONS")
    THEN Take(mock_transactions(query, customers, txns), limit)
    ELSE IF Contains(query, "CUSTOMERS") \/ Contains(query, "CUSTOMER")
    THEN Take(mock_customers(query, customers), limit)
    ELSE Take(customers, limit)

\* _execute_mock_query with the customers branch sorting MOCK_CUSTOMERS itself
\* (`results = MOCK_CUSTOMERS` in place of `results = list(MOCK_CUSTOMERS)`)
mock_data_after_sort_in_place(query, customers, txns, loans) ==
    [customers    |-> IF /\ ~Contains(query, "TRANSACTIONS")
                         /\ ~Contains(query, "LOANS")
                         /\ Contains(query, "CUSTOMER")
                      THEN SortDesc(customers, "signup_date") ELSE customers,
     transactions |-> txns,
     loans        |-> loans]

\* the three record sets as _execute_mock_query leaves them: every branch
\* fills a list of its own (`results = []`, `list(MOCK_CUSTOMERS)`, a slice),
\* and it is that list which is filtered, sorted and sliced
mock_data_after(query, customers, txns, loans) ==
    [customers |-> customers, transactions |-> txns, loans |-> loans]

-----------------------------------------------------------------------------
(* Rate limiting and engine registry                                       *)

RateWindow == 60
RateLimit == 10

ClientIps == {"ip1"}

\* `while client_requests and client_requests[0] < now - 60: popleft()`
RECURSIVE purge(_, _)
purge(client_requests, t) ==
    IF client_requests # <<>> /\ Head(client_requests) < t - RateWindow
    THEN purge(Tail(client_requests), t) ELSE client_requests

\* rate_limit_check appending the timestamp of a refused call as well
rate_limit_check_records_refused(client_requests, t) ==
    LET kept == purge(client_requests, t) IN
    IF Len(kept) >= RateLimit
    THEN [allowed |-> FALSE, requests |-> Append(kept, t)]
    ELSE [allowed |-> TRUE, requests |-> Append(kept, t)]

\* rate_limit_check: the value returned and the deque it leaves
rate_limit_check(client_requests, t) ==
    LET kept == purge(client_requests, t) IN
    IF Len(kept) >= RateLimit
    THEN [allowed |-> FALSE, requests |-> kept]
    ELSE [allowed |-> TRUE, requests |-> Append(kept, t)]

\* a connection string: unset, one create_engine accepts, one it raises on
UrlKinds == {"", "db://ok", "db://bad"}

NoEngine == 0

\* get_engine without `if db_type in _ENGINE_CACHE: return ...`
get_engine_no_cache(cache, created, url_of, db_type) ==
    IF db_type \notin DbTypes \/ url_of[db_type] = ""
    THEN [engine |-> NoEngine, raised |-> FALSE, cache |-> cache, created |-> created]
    ELSE IF url_of[db_type] = "db://bad"
    THEN [engine |-> NoEngine, raised |-> TRUE, cache |-> cache, created |-> created]
    ELSE [engine |-> created + 1, raised |-> FALSE,
          cache |-> [cache EXCEPT ![db_type] = created + 1],
          created |-> created + 1]

\* get_engine without `if not url: return None`
get_engine_no_url_check(cache, created, url_of, db_type) ==
    IF db_type \notin DbTypes
    THEN [engine |-> NoEngine, raised |-> FALSE, cache |-> cache, created |-> created]
    ELSE IF cache[db_type] # NoEngine
    THEN [engine |-> cache[db_type], raised |-> FALSE, cache |-> cache, created |-> created]
    ELSE IF url_of[db_type] = "db://bad"
    THEN [engine |-> NoEngine, raised |-> TRUE, cache |-> cache, created |-> created]
    ELSE [engine |-> created + 1, raised |-> FALSE,
          cache |-> [cache EXCEPT ![db_type] = created + 1],
          created |-> created + 1]

\* get_engine: the engine returned (NoEngine for None), whether create_engine
\* raised, and the cache and the count of engines built it leaves
get_engine(cache, created, url_of, db_type) ==
    IF db_type \notin DbTypes
    THEN [engine |-> NoEngine, raised |-> FALSE, cache |-> cache, created |-> created]
    ELSE IF cache[db_type] # NoEngine
    THEN [engine |-> cache[db_type], raised |-> FALSE, cache |-> cache, created |-> created]
    ELSE IF url_of[db_type] = ""
    THEN [engine |-> NoEngine, raised |-> FALSE, cache |-> cache, created |-> created]
    ELSE IF url_of[db_type] = "db://bad"
    THEN [engine |-> NoEngine, raised |-> TRUE, cache |-> cache, created |-> created]
    ELSE [engine |-> created + 1, raised |-> FALSE,
          cache |-> [cache EXCEPT ![db_type] = created + 1],
          created |-> created + 1]

-----------------------------------------------------------------------------
(* Execution router                                                        *)

\* where a live execution fails, if it does
Faults == {"none", "connect", "read_only", "query", "fetch"}

\* numbers of rows a live engine returns
LiveRowCounts == {0, 3, MAX_ROWS, MAX_ROWS + 1}

\* the rows of a live result, in the order the engine yields them
LiveRows(n) == [i \in 1..n |-> i]

\* the live path with `conn = engine.connect()` in place of the with block: the
\* connection is closed on the success path only
live_log_no_with(query, fault) ==
    IF fault = "connect" THEN <<"connect failed">>
    ELSE <<"connect", "begin">> \o
         (IF fault = "read_only"
          THEN <<"SET SESSION TRANSACTION READ ONLY failed", "rollback">>
          ELSE <<"SET SESSION TRANSACTION READ ONLY", "commit">> \o
               (IF fault = "query" THEN <<"query failed">>
                ELSE IF fault = "fetch" THEN <<"query", "fetch failed">>
                ELSE <<"query", "fetch", "release">>))

\* the live path with the read-only statement sent after the query
live_log_query_first(query, fault) ==
    IF fault = "connect" THEN <<"connect failed">>
    ELSE <<"connect", "query", "fetch", "begin",
           "SET SESSION TRANSACTION READ ONLY", "commit", "release">>

\* what happens on the connection of `with engine.connect() as conn:` up to
\* the fault, the connection being released when the block is left
live_log(query, fault) ==
    IF fault = "connect" THEN <<"connect failed">>
    ELSE <<"connect", "begin">> \o
         (IF fault = "read_only"
          THEN <<"SET SESSION TRANSACTION READ ONLY failed", "rollback">>
          ELSE <<"SET SESSION TRANSACTION READ ONLY", "commit">> \o
               (IF fault = "query" THEN <<"query failed">>
                ELSE IF fault = "fetch" THEN <<"query", "fetch failed">>
                ELSE <<"query", "fetch">>)) \o
         <<"release">>

\* the live path without `rows = rows[:MAX_ROWS]`
cap_rows_off(rows) == rows

\* `if len(rows) > MAX_ROWS: rows = rows[:MAX_ROWS]`
cap_rows(rows) == IF Len(rows) > MAX_ROWS THEN SubSeq(rows, 1, MAX_ROWS) ELSE rows

\* the live path with `except Exception` missing the connection failure
live_outcome_uncaught(fault) ==
    IF fault = "none" THEN "rows" ELSE IF fault = "connect" THEN "raised" ELSE "http_500"

\* how the try block of execute_sql ends: every exception raised inside it is
\* caught by `except Exception` and replaced by HTTPException(500)
live_outcome(fault) == IF fault = "none" THEN "rows" ELSE "http_500"

\* execute_sql: what it returns or raises, and what it leaves behind
\*   outcome "rows": result returned; "http_500": HTTPException(500, "Database
\*   query failed"); "raised": an exception of create_engine passing through
execute_sql(query, db_type, cache, created, url_of, customers, txns, loans, fault, nrows) ==
    LET got   == get_engine(cache, created, url_of, db_type)
        entry == <<"execute_sql", "get_engine">> \o
                 (IF got.raised \/ got.created > created
                  THEN <<"create_engine">> ELSE <<>>)
        kept  == [customers |-> customers, transactions |-> txns, loans |-> loans]
    IN
    IF got.raised
    THEN [outcome |-> "raised", rows |-> <<>>, cache |-> got.cache,
          created |-> got.created, log |-> <<>>, fetched |-> <<>>,
          data |-> kept, calls |-> entry]
    ELSE IF got.engine = NoEngine
    THEN [outcome |-> "rows",
          rows |-> execute_mock_query(query, customers, txns, loans),
          cache |-> got.cache, created |-> got.created, log |-> <<>>,
          fetched |-> <<>>,
          data |-> mock_data_after(query, customers, txns, loans),
          calls |-> entry \o <<"_execute_mock_query">>]
    ELSE [outcome |-> live_outcome(fault),
          rows |-> IF live_outcome(fault) = "rows"
                   THEN cap_rows(LiveRows(nrows)) ELSE <<>>,
          cache |-> got.cache, created |-> got.created,
          log |-> live_log(query, fault),
          fetched |-> IF fault = "none" THEN LiveRows(nrows) ELSE <<>>,
          data |-> kept,
          calls |-> entry \o <<"engine.connect">>]

-----------------------------------------------------------------------------
(* Inputs                                                                  *)

Leads == {<<>>, <<" ">>, <<"/*c*/", " ">>}
Heads == {<<"SELECT">>, <<"select">>, <<"DROP">>, <<"delete">>, <<"SHOW">>}
Bodies ==
    {<<" ", "*", " ", "FROM", " ", "t">>,
     <<" ", "first_name", " ", "FROM", " ", "customers">>,
     <<" ", "created_at", " ", "FROM", " ", "t">>,
     <<" ", "credit_limit", " ", "FROM", " ", "t">>,
     <<" ", "*", " ", "FROM", " ", "(", "SELECT", " ", "*", " ", "FROM", " ",
       "t", " ", "LIMIT", " ", "ALL", ")", " ", "s">>,
     <<" ", "*", " ", "FROM", " ", "(", "SELECT", " ", "*", " ", "FROM", " ",
       "t", " ", "LIMIT", " ", "7", ")", " ", "s">>}
Limits ==
    {<<>>,
     <<" ", "LIMIT", " ", "5">>,
     <<" ", "limit", " ", " ", "7">>,
     <<" ", "LIMIT", " ", "ALL">>}
Ends ==
    {<<>>, <<";">>, <<" ", ";", " ">>, <<";", " ", "/*c*/">>,
     <<";", " ", "SELECT", " ", "*", " ", "FROM", " ", "t">>,
     <<";", "DROP", " ", "TABLE", " ", "t">>}

\* the strings handed to validate_sql and to the normalizer in direct calls
Queries ==
    {lead \o head \o body \o limit \o end :
        lead \in Leads, head \in Heads, body \in Bodies, limit \in Limits,
        end \in Ends}
    \cup {<<>>, <<" ">>, <<";">>, <<"/*c*/">>}

\* the query texts handed to _execute_mock_query in direct calls
MockTables ==
    {<<"t">>, <<"t", " ", "customer_id">>, <<"customers">>, <<"transactions">>,
     <<"loans">>,
     <<"customers", " ", "transactions">>, <<"customers", " ", "loans">>}
MockFilters == {<<>>, <<" ", "active">>, <<" ", "inactive">>}
MockLimits ==
    {<<>>,
     <<" ", "LIMIT", " ", "3">>,
     <<" ", "limit", " ", "3">>,
     <<" ", "LIMIT", " ", "3", ";">>,
     <<" ", "LIMIT", " ", "3", " ", "FETCH", " ", "FIRST", " ", "7", " ", "ROWS", " ", "ONLY">>,
     <<" ", "LIMIT", " ", "3", ")", " ", "s", " ", "LIMIT", " ", "7">>,
     <<" ", "LIMIT", " ", "3", " ", "credit_limit">>,
     <<" ", "LIMIT", " ", "7">>,
     <<" ", "LIMIT", " ", "-3">>,
     <<" ", "LIMIT", " ", "5000">>}
MockQueries ==
    {<<"SELECT", " ", "*", " ", "FROM", " ">> \o table \o filter \o limit :
        table \in MockTables, filter \in MockFilters, limit \in MockLimits}

\* the "sql" values generate_sql_from_text returns
GeneratedSql ==
    {<<>>,
     <<"SELECT", " ", "first_name", " ", "FROM", " ", "customers", " ", "LIMIT", " ", "5">>,
     <<"DROP", " ", "TABLE", " ", "customers">>,
     <<" ", "SELECT", " ", "*", " ", "FROM", " ", "t", ";", " ">>}

-----------------------------------------------------------------------------
(* State                                                                   *)

NoArg == [fn |-> "none"]
NoRequest == [client_ip |-> "", sql |-> <<>>, db_type |-> ""]
NoVerdict == Verdict(FALSE, "<not validated>", "")
NoResponse == [status |-> 0, detail |-> "", reason |-> "", name |-> "", result |-> <<>>]

Response(status, detail, reason, name, result) ==
    [status |-> status, detail |-> detail, reason |-> reason, name |-> name,
     result |-> result]

NumThreads == 2    \* threads that call get_engine concurrently
Threads == 1..NumThreads

\* a thread that is not inside get_engine and has not called it yet
IdleThread == [pc |-> "idle", db_type |-> "", seen |-> NoEngine, engine |-> NoEngine]

\* the state once both modules are imported, for one outcome of the random
\* generator and one environment
Started(seed, url_of) ==
    /\ now = 0
    /\ request_tracker = [ip \in ClientIps |-> <<>>]
    /\ urls = url_of
    /\ ENGINE_CACHE = [d \in DbTypes |-> NoEngine]
    /\ engines_created = 0
    /\ MOCK_CUSTOMERS = generate_mock_customers(seed)
    /\ MOCK_TRANSACTIONS = generate_mock_transactions(generate_mock_customers(seed), seed)
    /\ MOCK_LOANS = generate_mock_loans(generate_mock_customers(seed), seed)
    /\ pc = "idle"
    /\ req = NoRequest
    /\ verdict = NoVerdict
    /\ adapted_sql = <<>>
    /\ calls = <<>>
    /\ db_log = <<>>
    /\ live_rows = <<>>
    /\ response = NoResponse
    /\ threads = [t \in Threads |-> IdleThread]

Init ==
    /\ arg = NoArg
    /\ out = <<>>
    /\ \E seed \in 1..NumSeeds, url_of \in [DbTypes -> UrlKinds] : Started(seed, url_of)

-----------------------------------------------------------------------------
(* The /query endpoint, one action per stage of query_endpoint             *)

\* rate limiting and step 1: generate the SQL
Receive(client_ip, sql, db_type) ==
    /\ pc = "idle"
    /\ LET checked       == rate_limit_check(request_tracker[client_ip], now)
           generated_sql == strip(sql)
       IN
       /\ request_tracker' = [request_tracker EXCEPT ![client_ip] = checked.requests]
       /\ IF ~checked.allowed
          THEN /\ req' = [client_ip |-> client_ip, sql |-> <<>>, db_type |-> db_type]
               /\ calls' = <<"rate_limit_check">>
               /\ response' = Response(429, "Rate limit exceeded", "", "", <<>>)
               /\ pc' = "idle"
          ELSE /\ req' = [client_ip |-> client_ip, sql |-> generated_sql,
                          db_type |-> db_type]
               /\ calls' = <<"rate_limit_check", "generate_sql_from_text">>
               /\ IF generated_sql = <<>>
                  THEN /\ response' = Response(400, "Failed to generate SQL from question",
                                               "", "", <<>>)
                       /\ pc' = "idle"
                  ELSE /\ response' = NoResponse
                       /\ pc' = "validate"
    /\ verdict' = NoVerdict
    /\ adapted_sql' = <<>>
    /\ db_log' = <<>>
    /\ live_rows' = <<>>
    /\ UNCHANGED <<arg, threads, out, now, urls, ENGINE_CACHE, engines_created,
                   MOCK_CUSTOMERS, MOCK_TRANSACTIONS, MOCK_LOANS>>

\* step 2 without the `if not is_valid: raise`
ValidateAndGoOn ==
    /\ pc = "validate"
    /\ verdict' = validate_sql(req.sql)
    /\ calls' = Append(calls, "validate_sql")
    /\ response' = response
    /\ pc' = "normalize"
    /\ UNCHANGED <<arg, threads, out, now, request_tracker, urls, ENGINE_CACHE,
                   engines_created, MOCK_CUSTOMERS, MOCK_TRANSACTIONS, MOCK_LOANS,
                   req, adapted_sql, db_log, live_rows>>

\* step 2: validate the SQL
Validate ==
    /\ pc = "validate"
    /\ verdict' = validate_sql(req.sql)
    /\ calls' = Append(calls, "validate_sql")
    /\ IF ~verdict'.is_valid
       THEN /\ response' = Response(400, "Invalid SQL", verdict'.reason,
                                    verdict'.name, <<>>)
            /\ pc' = "idle"
       ELSE /\ response' = response
            /\ pc' = "normalize"
    /\ UNCHANGED <<arg, threads, out, now, request_tracker, urls, ENGINE_CACHE,
                   engines_created, MOCK_CUSTOMERS, MOCK_TRANSACTIONS, MOCK_LOANS,
                   req, adapted_sql, db_log, live_rows>>

\* step 3: add the LIMIT clause if missing, then adapt to the dialect
Normalize ==
    /\ pc = "normalize"
    /\ adapted_sql' = normalize(req.sql, req.db_type)
    /\ calls' = calls \o <<"add_limit_if_missing", "adapt_sql_for_dialect">>
    /\ pc' = "execute"
    /\ UNCHANGED <<arg, threads, out, now, request_tracker, urls, ENGINE_CACHE,
                   engines_created, MOCK_CUSTOMERS, MOCK_TRANSACTIONS, MOCK_LOANS,
                   req, verdict, db_log, live_rows, response>>

\* execute_sql and the reply; `except HTTPException: raise` passes the 500 of
\* execute_sql on, `except Exception` turns anything else into the generic 500
Execute(fault, nrows) ==
    /\ pc = "execute"
    /\ \/ /\ get_engine(ENGINE_CACHE, engines_created, urls, req.db_type).engine # NoEngine
          /\ fault = "none" \/ nrows = 0
       \/ /\ get_engine(ENGINE_CACHE, engines_created, urls, req.db_type).engine = NoEngine
          /\ fault = "none" /\ nrows = 0
    /\ LET done == execute_sql(adapted_sql, req.db_type, ENGINE_CACHE,
                               engines_created, urls, MOCK_CUSTOMERS,
                               MOCK_TRANSACTIONS, MOCK_LOANS, fault, nrows)
       IN
       /\ ENGINE_CACHE' = done.cache
       /\ engines_created' = done.created
       /\ db_log' = done.log
       /\ live_rows' = done.fetched
       /\ MOCK_CUSTOMERS' = done.data.customers
       /\ MOCK_TRANSACTIONS' = done.data.transactions
       /\ MOCK_LOANS' = done.data.loans
       /\ calls' = calls \o done.calls
       /\ response' =
            CASE done.outcome = "rows" ->
                    Response(200, "", "", "", done.rows)
              [] done.outcome = "http_500" ->
                    Response(500, "Database query failed", "", "", <<>>)
              [] OTHER ->
                    Response(500, "Internal server error occurred", "", "", <<>>)
    /\ pc' = "idle"
    /\ UNCHANGED <<arg, threads, out, now, request_tracker, urls, req, verdict,
                   adapted_sql>>

\* the engines root() obtains, backend after backend, until get_engine raises
RECURSIVE health_engines(_, _, _, _)
health_engines(order, cache, created, url_of) ==
    IF order = <<>> THEN [cache |-> cache, created |-> created]
    ELSE LET got == get_engine(cache, created, url_of, Head(order)) IN
         IF got.raised THEN [cache |-> cache, created |-> created]
         ELSE health_engines(Tail(order), got.cache, got.created, url_of)

\* GET /: the health check
HealthCheck ==
    /\ pc = "idle"
    /\ LET got == health_engines(<<"postgresql", "mysql", "oracle">>, ENGINE_CACHE,
                                 engines_created, urls)
       IN /\ ENGINE_CACHE' = got.cache
          /\ engines_created' = got.created
    /\ UNCHANGED <<arg, threads, out, now, request_tracker, urls, MOCK_CUSTOMERS,
                   MOCK_TRANSACTIONS, MOCK_LOANS, pc, req, verdict, adapted_sql,
                   calls, db_log, live_rows, response>>

Next ==
    \/ \E client_ip \in ClientIps, sql \in GeneratedSql, db_type \in DbTypes :
          Receive(client_ip, sql, db_type)
    \/ Validate
    \/ Normalize
    \/ \E fault \in Faults, nrows \in LiveRowCounts : Execute(fault, nrows)
    \/ HealthCheck

Spec == Init /\ [][Next]_vars

-----------------------------------------------------------------------------
(* Direct calls of the pure functions                                      *)

InitValidate ==
    /\ arg \in {[fn |-> "validate_sql", sql |-> q] : q \in Queries}
    /\ out = <<>>
    /\ Started(1, [d \in DbTypes |-> ""])

CallValidate ==
    /\ arg.fn = "validate_sql"
    /\ out = <<>>
    /\ out' = <<validate_sql(arg.sql)>>
    /\ UNCHANGED <<arg, threads, now, request_tracker, urls, ENGINE_CACHE, engines_created,
                   MOCK_CUSTOMERS, MOCK_TRANSACTIONS, MOCK_LOANS, pc, req, verdict,
                   adapted_sql, calls, db_log, live_rows, response>>

SpecValidate == InitValidate /\ [][CallValidate]_vars

InitNormalize ==
    /\ arg \in {[fn |-> "normalize", sql |-> q, db_type |-> d] :
                   q \in Queries, d \in DbTypes}
    /\ out = <<>>
    /\ Started(1, [d \in DbTypes |-> ""])

\* the normalizer applied to the query, then to its own output
CallNormalize ==
    /\ arg.fn = "normalize"
    /\ Len(out) < 2
    /\ out' = Append(out, normalize(IF out = <<>> THEN arg.sql ELSE out[Len(out)],
                                    arg.db_type))
    /\ UNCHANGED <<arg, threads, now, request_tracker, urls, ENGINE_CACHE, engines_created,
                   MOCK_CUSTOMERS, MOCK_TRANSACTIONS, MOCK_LOANS, pc, req, verdict,
                   adapted_sql, calls, db_log, live_rows, response>>

SpecNormalize == InitNormalize /\ [][CallNormalize]_vars

InitMock ==
    /\ arg \in {[fn |-> "_execute_mock_query", sql |-> q] : q \in MockQueries}
    /\ out = <<>>
    /\ \E seed \in 1..NumSeeds : Started(seed, [d \in DbTypes |-> ""])

\* _execute_mock_query called with the query text, then called again with it
CallMock ==
    /\ arg.fn = "_execute_mock_query"
    /\ Len(out) < 2
    /\ out' = Append(out, execute_mock_query(arg.sql, MOCK_CUSTOMERS,
                                              MOCK_TRANSACTIONS, MOCK_LOANS))
    /\ LET data == mock_data_after(arg.sql, MOCK_CUSTOMERS, MOCK_TRANSACTIONS,
                                    MOCK_LOANS)
       IN /\ MOCK_CUSTOMERS' = data.customers
          /\ MOCK_TRANSACTIONS' = data.transactions
          /\ MOCK_LOANS' = data.loans
    /\ UNCHANGED <<arg, threads, now, request_tracker, urls, ENGINE_CACHE,
                   engines_created, pc, req, verdict, adapted_sql, calls, db_log,
                   live_rows, response>>

SpecMock == InitMock /\ [][CallMock]_vars

-----------------------------------------------------------------------------
(* rate_limit_check called by several clients as the clock advances        *)

MaxCalls == 13

RateIps == {"ip1", "ip2"}
\* the later readings of the clock
RateClock == {30, 60, 61}

\* the calls made so far, per client: the clock read and the value returned
CallsMade == Len(out["ip1"]) + Len(out["ip2"])

InitRate ==
    /\ arg = [fn |-> "rate_limit_check", sql |-> <<>>]
    /\ out = [ip \in RateIps |-> <<>>]
    /\ now = 0
    /\ request_tracker = [ip \in RateIps |-> <<>>]
    /\ urls = [d \in DbTypes |-> ""]
    /\ ENGINE_CACHE = [d \in DbTypes |-> NoEngine]
    /\ engines_created = 0
    /\ MOCK_CUSTOMERS = generate_mock_customers(1)
    /\ MOCK_TRANSACTIONS = generate_mock_transactions(generate_mock_customers(1), 1)
    /\ MOCK_LOANS = generate_mock_loans(generate_mock_customers(1), 1)
    /\ pc = "idle"
    /\ req = NoRequest
    /\ verdict = NoVerdict
    /\ adapted_sql = <<>>
    /\ calls = <<>>
    /\ db_log = <<>>
    /\ live_rows = <<>>
    /\ response = NoResponse
    /\ threads = [t \in Threads |-> IdleThread]

UnchangedByRate ==
    UNCHANGED <<arg, threads, urls, ENGINE_CACHE, engines_created, MOCK_CUSTOMERS,
                MOCK_TRANSACTIONS, MOCK_LOANS, pc, req, verdict, adapted_sql,
                calls, db_log, live_rows, response>>

\* time_module.time() read by the next call is later than the previous one
TickRate(t) ==
    /\ t > now
    /\ now' = t
    /\ UNCHANGED <<out, request_tracker>>
    /\ UnchangedByRate

\* rate_limit_check(client_ip)
CallRate(client_ip) ==
    /\ CallsMade < MaxCalls
    /\ LET checked == rate_limit_check(request_tracker[client_ip], now)
       IN /\ request_tracker' = [request_tracker EXCEPT ![client_ip] = checked.requests]
          /\ out' = [out EXCEPT ![client_ip] =
                        Append(@, [t |-> now, allowed |-> checked.allowed])]
    /\ UNCHANGED now
    /\ UnchangedByRate

NextRate ==
    \/ \E t \in RateClock : TickRate(t)
    \/ \E client_ip \in RateIps : CallRate(client_ip)

SpecRate == InitRate /\ [][NextRate]_vars

-----------------------------------------------------------------------------
(* execute_sql on a validated and normalized query, stores at source size  *)

SourceTables ==
    {<<"t">>, <<"customers">>, <<"transactions">>, <<"loans">>,
     <<"customers", " ", "transactions">>}
SourceLimits ==
    {<<>>,
     <<" ", "LIMIT", " ", "3">>,
     <<" ", "LIMIT", " ", "1000">>,
     <<" ", "LIMIT", " ", "5000">>}
SourceQueries ==
    {<<"SELECT", " ", "*", " ", "FROM", " ">> \o table \o limit :
        table \in SourceTables, limit \in SourceLimits}

InitSource ==
    /\ arg \in {[fn |-> "execute_sql", sql |-> q, db_type |-> d] :
                    q \in SourceQueries, d \in DbTypes}
    /\ out = <<>>
    /\ now = 0
    /\ request_tracker = [ip \in ClientIps |-> <<>>]
    /\ urls \in {[d \in DbTypes |-> ""], [d \in DbTypes |-> "db://ok"]}
    /\ ENGINE_CACHE = [d \in DbTypes |-> NoEngine]
    /\ engines_created = 0
    /\ MOCK_CUSTOMERS = source_customers(1)
    /\ \E num_transactions \in SourceTxnCounts :
          MOCK_TRANSACTIONS = source_transactions(source_customers(1), 1,
                                                  num_transactions)
    /\ MOCK_LOANS = generate_mock_loans(source_customers(1), 1)
    /\ pc = "idle"
    /\ req = NoRequest
    /\ verdict = NoVerdict
    /\ adapted_sql = <<>>
    /\ calls = <<>>
    /\ db_log = <<>>
    /\ live_rows = <<>>
    /\ response = NoResponse
    /\ threads = [t \in Threads |-> IdleThread]

\* query_endpoint steps 2 to 4 on the text: validate_sql, the two rewrites,
\* execute_sql
CallSource(nrows) ==
    /\ arg.fn = "execute_sql"
    /\ out = <<>>
    /\ validate_sql(arg.sql).is_valid
    /\ urls[arg.db_type] = "" => nrows = 0
    /\ LET done == execute_sql(normalize(arg.sql, arg.db_type), arg.db_type,
                               ENGINE_CACHE, engines_created, urls, MOCK_CUSTOMERS,
                               MOCK_TRANSACTIONS, MOCK_LOANS, "none", nrows)
       IN
       /\ out' = <<done.rows>>
       /\ adapted_sql' = normalize(arg.sql, arg.db_type)
       /\ ENGINE_CACHE' = done.cache
       /\ engines_created' = done.created
       /\ db_log' = done.log
       /\ live_rows' = done.fetched
       /\ MOCK_CUSTOMERS' = done.data.customers
       /\ MOCK_TRANSACTIONS' = done.data.transactions
       /\ MOCK_LOANS' = done.data.loans
       /\ calls' = done.calls
    /\ UNCHANGED <<arg, threads, now, request_tracker, urls, pc, req, verdict,
                   response>>

NextSource == \E nrows \in LiveRowCounts : CallSource(nrows)

SpecSource == InitSource /\ [][NextSource]_vars

-----------------------------------------------------------------------------
(* get_engine called by concurrent threads, one action per step of a call  *)

InFlight == {"check", "create", "store"}

\* no call of another thread for backend d is under way
Quiet(t, d) ==
    \A u \in Threads \ {t} : ~(threads[u].pc \in InFlight /\ threads[u].db_type = d)

UnchangedByThreads ==
    UNCHANGED <<arg, out, now, request_tracker, urls, MOCK_CUSTOMERS,
                MOCK_TRANSACTIONS, MOCK_LOANS, pc, req, verdict, adapted_sql,
                calls, db_log, live_rows, response>>

\* thread t calls get_engine(d); seen is the cache entry of d when the call
\* begins with no other call for d under way
Begin(t, d) ==
    /\ threads[t].pc \notin InFlight
    /\ threads' = [threads EXCEPT ![t] =
                      [pc |-> "check", db_type |-> d,
                       seen |-> IF Quiet(t, d) THEN ENGINE_CACHE[d] ELSE NoEngine,
                       engine |-> NoEngine]]
    /\ UNCHANGED <<ENGINE_CACHE, engines_created>>
    /\ UnchangedByThreads

\* the cache lookup with `if db_type in _ENGINE_CACHE` never true
CheckSkipsCache(t) ==
    /\ threads[t].pc = "check"
    /\ threads' = [threads EXCEPT ![t].pc =
                      IF urls[threads[t].db_type] = "" THEN "returned" ELSE "create"]
    /\ UNCHANGED <<ENGINE_CACHE, engines_created>>
    /\ UnchangedByThreads

\* `if db_type in _ENGINE_CACHE: return _ENGINE_CACHE[db_type]`, then the
\* connection string: `if not url: return None`
Check(t) ==
    /\ threads[t].pc = "check"
    /\ LET d == threads[t].db_type IN
       threads' = [threads EXCEPT ![t] =
                     IF ENGINE_CACHE[d] # NoEngine
                     THEN [@ EXCEPT !.pc = "returned", !.engine = ENGINE_CACHE[d]]
                     ELSE IF urls[d] = ""
                     THEN [@ EXCEPT !.pc = "returned"]
                     ELSE [@ EXCEPT !.pc = "create"]]
    /\ UNCHANGED <<ENGINE_CACHE, engines_created>>
    /\ UnchangedByThreads

\* `engine = create_engine(url, ...)`
Create(t) ==
    /\ threads[t].pc = "create"
    /\ IF urls[threads[t].db_type] = "db://bad"
       THEN /\ threads' = [threads EXCEPT ![t].pc = "raised"]
            /\ UNCHANGED engines_created
       ELSE /\ threads' = [threads EXCEPT ![t].pc = "store",
                                          ![t].engine = engines_created + 1]
            /\ engines_created' = engines_created + 1
    /\ UNCHANGED ENGINE_CACHE
    /\ UnchangedByThreads

\* `_ENGINE_CACHE[db_type] = engine` and `return engine`
Store(t) ==
    /\ threads[t].pc = "store"
    /\ ENGINE_CACHE' = [ENGINE_CACHE EXCEPT ![threads[t].db_type] = threads[t].engine]
    /\ threads' = [threads EXCEPT ![t].pc = "returned"]
    /\ UNCHANGED engines_created
    /\ UnchangedByThreads

NextEngine ==
    \/ \E t \in Threads, d \in DbTypes : Begin(t, d)
    \/ \E t \in Threads : Check(t)
    \/ \E t \in Threads : Create(t)
    \/ \E t \in Threads : Store(t)

\* the environments of the concurrent calls: one backend of each kind
\* (configured, not configured, rejected by create_engine), in every order
EngineUrls ==
    {url_of \in [DbTypes -> UrlKinds] :
        \A kind \in UrlKinds : \E d \in DbTypes : url_of[d] = kind}

InitEngine ==
    /\ arg = NoArg
    /\ out = <<>>
    /\ \E url_of \in EngineUrls : Started(1, url_of)

SpecEngine == InitEngine /\ [][NextEngine]_vars

-----------------------------------------------------------------------------
(* Properties                                                              *)

Range(seq) == {seq[i] : i \in 1..Len(seq)}

\* the first significant token of a text, upper-cased
LeadingToken(text) == Upper(token_first(text))

\* some denylisted keyword occurs in the upper-cased raw text
HasDenylisted(text) == \E kw \in Dangerous : Contains(text, kw)

\* the text parses into statements that all start with SELECT
AllStartWithSelect(text) ==
    /\ parse(text) # <<>>
    /\ \A k \in 1..Len(parse(text)) : LeadingToken(parse(text)[k]) = "SELECT"

IsLimitToken(l) == Upper(l) = "LIMIT"

\* position i holds a LIMIT token followed by whitespace and digits
IsLimitClauseAt(text, i) ==
    /\ i \in 1..Len(text)
    /\ IsLimitToken(text[i])
    /\ \E j \in (i + 2)..Len(text) :
          /\ text[j] \in DigitLexemes
          /\ \A m \in (i + 1)..(j - 1) : IsWs(text[m])

\* the digits of the LIMIT clause at position i
ClauseDigits(text, i) ==
    text[CHOOSE j \in (i + 2)..Len(text) :
            /\ text[j] \in DigitLexemes
            /\ \A m \in (i + 1)..(j - 1) : IsWs(text[m])]

LimitClauses(text) == {i \in 1..Len(text) : IsLimitClauseAt(text, i)}
LimitTokens(text) == {i \in 1..Len(text) : IsLimitToken(text[i])}

EndsWith(text, suffix) ==
    /\ Len(text) >= Len(suffix)
    /\ SubSeq(text, Len(text) - Len(suffix) + 1, Len(text)) = suffix

FetchClause(n) == <<"FETCH", " ", "FIRST", " ", n, " ", "ROWS", " ", "ONLY">>

\* C1: validate_sql rejects every input that parses into more than one
\* statement.
C1_MultiStatementRejected ==
    (out # <<>> /\ Len(parse(arg.sql)) > 1) => ~out[1].is_valid

\* C2: validate_sql rejects every input whose upper-cased raw text holds a
\* denylisted keyword anywhere; when every statement starts with SELECT the
\* reason is the forbidden-keyword one and names a denylisted keyword of the
\* text; a valid verdict implies that every statement starts with SELECT and
\* that no denylisted keyword occurs in the raw text.
C2_KeywordAnywhereRejected ==
    out # <<>> =>
        /\ HasDenylisted(arg.sql) => ~out[1].is_valid
        /\ (HasDenylisted(arg.sql) /\ AllStartWithSelect(arg.sql)) =>
              /\ out[1].reason = "Forbidden keyword detected"
              /\ out[1].name \in Dangerous
              /\ Contains(arg.sql, out[1].name)
        /\ out[1].is_valid =>
              (AllStartWithSelect(arg.sql) /\ ~HasDenylisted(arg.sql))

C2_Witness ==
    /\ out # <<>>
    /\ Len(parse(arg.sql)) = 2
    /\ LeadingToken(parse(arg.sql)[2]) = "DROP"
    /\ out[1] = Verdict(FALSE, "Forbidden keyword detected", "DROP")

\* C3: when the leading significant token of the text (whitespace and comments
\* skipped, upper-cased) is a denylisted command, validate_sql fails with the
\* forbidden-command reason naming that token, and with no other reason.
C3_LeadingCommandForbidden ==
    (out # <<>> /\ LeadingToken(arg.sql) \in Dangerous) =>
        out[1] = Verdict(FALSE, "Forbidden SQL command", LeadingToken(arg.sql))

C3_Witness ==
    /\ out # <<>>
    /\ arg.sql # <<>>
    /\ Head(arg.sql) \in CommentLexemes
    /\ token_first(arg.sql) = "delete"
    /\ out[1] = Verdict(FALSE, "Forbidden SQL command", "DELETE")

\* C4: a single SELECT statement in whose raw text no denylisted keyword
\* occurs is accepted: validate_sql returns (True, None).
C4_PlainSelectAccepted ==
    (/\ out # <<>>
     /\ Len(parse(arg.sql)) = 1
     /\ LeadingToken(parse(arg.sql)[1]) = "SELECT"
     /\ ~HasDenylisted(arg.sql)) => out[1] = Valid

C4_Witness ==
    /\ out # <<>>
    /\ arg.sql # <<>>
    /\ Len(parse(arg.sql)) = 1
    /\ token_first(arg.sql) = "select"
    /\ Head(arg.sql) \in CommentLexemes
    /\ arg.sql[Len(arg.sql)] = " "
    /\ ";" \in Range(arg.sql)
    /\ ~HasDenylisted(arg.sql)
    /\ out[1] = Valid

\* the calls of query_endpoint that come after validation
ExecutionCalls ==
    {"add_limit_if_missing", "adapt_sql_for_dialect", "execute_sql", "get_engine",
     "create_engine", "engine.connect", "_execute_mock_query"}

\* C5: when validate_sql finds the candidate SQL invalid, the request never
\* reaches normalization or execution: none of add_limit_if_missing,
\* adapt_sql_for_dialect, execute_sql, the engine registry and the simulator
\* is invoked for it, and it ends with the validation error carrying the
\* verdict's reason.
C5_InvalidNeverExecuted ==
    /\ pc \in {"normalize", "execute"} => verdict.is_valid
    /\ (verdict # NoVerdict /\ ~verdict.is_valid) =>
          /\ pc = "idle"
          /\ response = Response(400, "Invalid SQL", verdict.reason, verdict.name, <<>>)
          /\ Range(calls) \cap ExecutionCalls = {}
          /\ adapted_sql = <<>>
          /\ db_log = <<>>

C5_Witness ==
    /\ pc = "idle"
    /\ req.sql = <<"DROP", " ", "TABLE", " ", "customers">>
    /\ verdict = Verdict(FALSE, "Forbidden SQL command", "DROP")
    /\ response.status = 400
    /\ response.name = "DROP"

\* C6: on a backend without connection string, the request for 'SELECT
\* first_name FROM customers LIMIT 5' is accepted, answered by the simulator,
\* and returns exactly 5 customer records, each with a non-empty first_name.
C6_FiveCustomersOnUnconfiguredBackend ==
    (/\ pc = "idle"
     /\ response # NoResponse
     /\ response.status # 429
     /\ req.sql = <<"SELECT", " ", "first_name", " ", "FROM", " ", "customers",
                    " ", "LIMIT", " ", "5">>
     /\ urls[req.db_type] = "") =>
        /\ verdict.is_valid
        /\ response.status = 200
        /\ "_execute_mock_query" \in Range(calls)
        /\ Len(response.result) = 5
        /\ \A i \in 1..Len(response.result) :
              /\ response.result[i] \in Range(MOCK_CUSTOMERS)
              /\ response.result[i].first_name # ""

\* C7: normalizing an already normalized query returns it unchanged, for every
\* backend; no second FETCH FIRST clause is added.
C7_NormalizerIdempotent ==
    Len(out) = 2 =>
        /\ out[2] = out[1]
        /\ Cardinality({i \in 1..Len(out[2]) : out[2][i] = "FETCH"}) <= 1

\* C8: for the oracle backend and every LIMIT <n> clause of the query (any
\* letter case, any whitespace before the digits), the normalized output ends
\* with FETCH FIRST <n> ROWS ONLY with the same n, and holds no LIMIT token.
C8_OracleRewrite ==
    (Len(out) >= 1 /\ arg.db_type = "oracle") =>
        \A i \in LimitClauses(arg.sql) :
            /\ EndsWith(out[1], FetchClause(ClauseDigits(arg.sql, i)))
            /\ LimitTokens(out[1]) = {}

\* C9: for postgresql and mysql, a query with a LIMIT clause is returned
\* unchanged, any other query gets ' LIMIT <max_rows>' appended after its
\* trailing whitespace and semicolon are stripped; the output holds a LIMIT
\* clause in both cases.
C9_LimitPresentAfterNormalizing ==
    (Len(out) >= 1 /\ arg.db_type \in {"postgresql", "mysql"}) =>
        /\ LimitTokens(arg.sql) # {} => out[1] = arg.sql
        /\ LimitTokens(arg.sql) = {} =>
              out[1] = rstrip_semi(rstrip(arg.sql)) \o
                       <<" ", "LIMIT", " ", StrOf(MAX_ROWS)>>
        /\ LimitTokens(out[1]) # {}

\* C10: when create_engine fails for a configured backend, the request is
\* answered with the simulator's rows for the query and no error.
C10_ConstructionFailureFallsBack ==
    (/\ pc = "idle"
     /\ "execute_sql" \in Range(calls)
     /\ urls[req.db_type] = "db://bad") =>
        /\ response.status = 200
        /\ response.result = execute_mock_query(adapted_sql, MOCK_CUSTOMERS,
                                                MOCK_TRANSACTIONS, MOCK_LOANS)

\* C11: for a backend without connection string, get_engine returns None and
\* adds no entry to the engine cache, and execute_sql returns exactly the rows
\* of the simulator for the same query text, with no error.
C11_UnconfiguredFallsBack ==
    /\ \A d \in DbTypes : urls[d] = "" =>
          /\ ENGINE_CACHE[d] = NoEngine
          /\ get_engine(ENGINE_CACHE, engines_created, urls, d) =
                [engine |-> NoEngine, raised |-> FALSE, cache |-> ENGINE_CACHE,
                 created |-> engines_created]
    /\ (pc = "idle" /\ "execute_sql" \in Range(calls) /\ urls[req.db_type] = "") =>
          /\ response = Response(200, "", "", "",
                                 execute_mock_query(adapted_sql, MOCK_CUSTOMERS,
                                                    MOCK_TRANSACTIONS, MOCK_LOANS))
          /\ "_execute_mock_query" \in Range(calls)
          /\ "create_engine" \notin Range(calls)
          /\ "engine.connect" \notin Range(calls)
          /\ db_log = <<>>

C11_Witness ==
    /\ pc = "idle"
    /\ req.db_type \in DbTypes
    /\ urls[req.db_type] = ""
    /\ \E d \in DbTypes : ENGINE_CACHE[d] # NoEngine
    /\ "_execute_mock_query" \in Range(calls)
    /\ response.status = 200
    /\ response.result # <<>>

\* C12: on the live path the read-only session statement is issued, and has
\* succeeded, on the connection before the query is executed on that same
\* connection; the query is never sent without it.
C12_ReadOnlyBeforeQuery ==
    \A i \in 1..Len(db_log) : db_log[i] \in {"query", "query failed"} =>
        \E j \in 1..(i - 1) :
            /\ db_log[j] = "SET SESSION TRANSACTION READ ONLY"
            /\ \E k \in 1..(j - 1) :
                  /\ db_log[k] = "connect"
                  /\ \A m \in k..i : db_log[m] # "release"

C12_Witness ==
    /\ pc = "idle"
    /\ "engine.connect" \in Range(calls)
    /\ "query" \in Range(db_log)
    /\ response.status = 200

\* C13: when the live engine yields more than MAX_ROWS rows, execute_sql
\* returns exactly the first MAX_ROWS of them in their order and raises no
\* error; when it yields at most MAX_ROWS rows, all of them are returned
\* unchanged and in order.
C13_RowCap ==
    (pc = "idle" /\ "fetch" \in Range(db_log)) =>
        /\ response.status = 200
        /\ Len(response.result) <= MAX_ROWS
        /\ response.result = IF Len(live_rows) > MAX_ROWS
                             THEN SubSeq(live_rows, 1, MAX_ROWS) ELSE live_rows

C13_Witness ==
    /\ pc = "idle"
    /\ Len(live_rows) = MAX_ROWS + 1
    /\ response.status = 200
    /\ Len(response.result) = MAX_ROWS
    /\ response.result[MAX_ROWS] = live_rows[MAX_ROWS]

\* what the live connection logs when a step of the execution fails
FailedEntries ==
    {"connect failed", "SET SESSION TRANSACTION READ ONLY failed", "query failed",
     "fetch failed"}

\* C14: every fault raised while executing on a live engine (connection,
\* read-only statement, query, fetching) ends in the one generic failure with
\* status 500 and the fixed message 'Database query failed'; the simulator is
\* not called and no other error is raised.
C14_LiveFaultsGeneric ==
    /\ (pc = "idle" /\ Range(db_log) \cap FailedEntries # {}) =>
          /\ response = Response(500, "Database query failed", "", "", <<>>)
          /\ "_execute_mock_query" \notin Range(calls)
    /\ (pc = "idle" /\ "engine.connect" \in Range(calls)) =>
          \/ response.status = 200 /\ Range(db_log) \cap FailedEntries = {}
          \/ response = Response(500, "Database query failed", "", "", <<>>)

C14_Witness ==
    /\ pc = "idle"
    /\ "connect failed" \in Range(db_log)
    /\ response.status = 500
    /\ response.detail = "Database query failed"

\* the text holds LIMIT (in any letter case), a space and 3
ContainsLimit3(text) ==
    \E i \in 1..(Len(text) - 2) :
        IsLimitToken(text[i]) /\ text[i + 1] = " " /\ text[i + 2] = "3"

\* C15: for every query text containing 'LIMIT 3' (any case), whatever else
\* the text contains, _execute_mock_query returns at most 3 rows.
C15_MockLimitThree ==
    (out # <<>> /\ ContainsLimit3(arg.sql)) => Len(out[1]) <= 3

C17_ReferentialIntegrity ==
    /\ \A i \in 1..Len(MOCK_TRANSACTIONS) :
          HasCustomer(MOCK_CUSTOMERS, MOCK_TRANSACTIONS[i].customer_id)
    /\ \A i \in 1..Len(MOCK_LOANS) :
          HasCustomer(MOCK_CUSTOMERS, MOCK_LOANS[i].customer_id)

C17_Witness ==
    /\ pc = "idle"
    /\ "_execute_mock_query" \in Range(calls)
    /\ response.status = 200
    /\ Len(MOCK_TRANSACTIONS) >= Len(MOCK_CUSTOMERS)
    /\ MOCK_LOANS # <<>>
    /\ \E c \in Range(MOCK_CUSTOMERS) :
          \A i \in 1..Len(MOCK_LOANS) : MOCK_LOANS[i].customer_id # c.customer_id

\* what the connection would log for a statement timeout being applied
TimeoutEntries == {"SET statement_timeout", "execution_options(timeout)"}

\* C18: on every live execution the configured QUERY_TIMEOUT is applied to the
\* session or the statement before the query is executed.
C18_StatementTimeoutApplied ==
    \A i \in 1..Len(db_log) : db_log[i] \in {"query", "query failed"} =>
        \E j \in 1..(i - 1) : db_log[j] \in TimeoutEntries

\* C19: in sequential use, the first get_engine call for a configured backend
\* constructs one engine and caches it, every later call returns that engine
\* and constructs none; at most one engine is constructed per backend, and a
\* cache entry, once set, is never replaced or removed.
C19_EngineCachedOnce ==
    /\ [](/\ engines_created = Cardinality({d \in DbTypes : ENGINE_CACHE[d] # NoEngine})
          /\ \A d \in DbTypes :
                LET got == get_engine(ENGINE_CACHE, engines_created, urls, d) IN
                /\ ENGINE_CACHE[d] # NoEngine =>
                      got = [engine |-> ENGINE_CACHE[d], raised |-> FALSE,
                             cache |-> ENGINE_CACHE, created |-> engines_created]
                /\ (ENGINE_CACHE[d] = NoEngine /\ urls[d] = "db://ok") =>
                      /\ got.engine # NoEngine
                      /\ got.created = engines_created + 1
                      /\ got.cache = [ENGINE_CACHE EXCEPT ![d] = got.engine])
    /\ [][\A d \in DbTypes :
             ENGINE_CACHE[d] # NoEngine => ENGINE_CACHE'[d] = ENGINE_CACHE[d]]_vars

C19_Witness ==
    /\ pc = "idle"
    /\ "get_engine" \in Range(calls)
    /\ "create_engine" \notin Range(calls)
    /\ "engine.connect" \in Range(calls)
    /\ ENGINE_CACHE[req.db_type] # NoEngine
    /\ engines_created >= 2

\* backend d has an engine cached and every call for d still under way began
\* when no other call for d was under way and the engine was already cached
Settled(d) ==
    /\ ENGINE_CACHE[d] # NoEngine
    /\ \A t \in Threads :
          (threads[t].pc \in InFlight /\ threads[t].db_type = d) =>
              threads[t].seen # NoEngine

\* C20: under any interleaving of concurrent get_engine calls for a configured
\* backend only one engine is retained: once all calls have returned, the
\* cache holds one engine for the backend, every call that begins afterwards
\* returns it, and the retained entry is not replaced by another engine.
C20_ConcurrentFirstAccess ==
    /\ [](\A d \in DbTypes :
             (/\ urls[d] = "db://ok"
              /\ \A t \in Threads : ~(threads[t].pc \in InFlight /\ threads[t].db_type = d)
              /\ \E t \in Threads : threads[t].pc = "returned" /\ threads[t].db_type = d)
             => /\ ENGINE_CACHE[d] # NoEngine
                /\ \A t \in Threads :
                      (/\ threads[t].pc = "returned"
                       /\ threads[t].db_type = d
                       /\ threads[t].seen # NoEngine) =>
                          threads[t].engine = ENGINE_CACHE[d])
    /\ [][\A d \in DbTypes : Settled(d) =>
             /\ ENGINE_CACHE'[d] = ENGINE_CACHE[d]
             /\ \A t \in Threads :
                   (threads[t].pc \in InFlight /\ threads[t].db_type = d) =>
                       /\ threads'[t].pc \in {"check", "returned"}
                       /\ threads'[t].pc = "returned" =>
                             threads'[t].engine = ENGINE_CACHE[d]]_vars

C20_Witness ==
    \E d \in DbTypes :
        /\ engines_created >= 2
        /\ \A e \in DbTypes \ {d} : ENGINE_CACHE[e] = NoEngine
        /\ ENGINE_CACHE[d] # NoEngine
        /\ \A t \in Threads : threads[t].pc = "returned" /\ threads[t].db_type = d
        /\ \E t \in Threads :
              threads[t].seen # NoEngine /\ threads[t].engine = ENGINE_CACHE[d]

\* number of entries of the connection log equal to entry
CountOf(log, entry) == Cardinality({i \in 1..Len(log) : log[i] = entry})

\* C21: every connection execute_sql acquires is released before execute_sql
\* returns or raises, on the success path and on every failure path (read-only
\* statement, query, reading rows); no run ends with a connection held.
C21_ConnectionReleased ==
    /\ CountOf(db_log, "connect") = CountOf(db_log, "release")
    /\ \A i \in 1..Len(db_log) : db_log[i] = "connect" =>
          \E j \in (i + 1)..Len(db_log) : db_log[j] = "release"
    /\ \A j \in 1..Len(db_log) : db_log[j] = "release" => j = Len(db_log)

C21_Witness ==
    /\ pc = "idle"
    /\ response.status = 500
    /\ "fetch failed" \in Range(db_log)
    /\ db_log[1] = "connect"
    /\ db_log[Len(db_log)] = "release"

\* the first L rows of rows (none for L <= 0)
FirstRows(rows, L) == SubSeq(rows, 1, Max(0, Min(L, Len(rows))))

\* the filtered and sorted rows of the branch that handles the query, before
\* the limit is applied
BranchRows(query) ==
    IF Contains(query, "CUSTOMERS") /\ Contains(query, "TRANSACTIONS")
    THEN mock_customers_transactions(MOCK_CUSTOMERS, MOCK_TRANSACTIONS)
    ELSE IF Contains(query, "CUSTOMERS") /\ Contains(query, "LOANS")
    THEN mock_customers_loans(query, MOCK_CUSTOMERS, MOCK_LOANS)
    ELSE IF Contains(query, "LOANS")
    THEN mock_loans(query, MOCK_LOANS)
    ELSE IF Contains(query, "TRANSACTIONS")
    THEN mock_transactions(query, MOCK_CUSTOMERS, MOCK_TRANSACTIONS)
    ELSE IF Contains(query, "CUSTOMER")
    THEN mock_customers(query, MOCK_CUSTOMERS)
    ELSE MOCK_CUSTOMERS

\* the text ends with LIMIT (any case), a space and one integer lexeme, and
\* holds no other "limit"
EndsWithOneLimit(text) ==
    /\ Len(text) >= 3
    /\ IsLimitToken(text[Len(text) - 2])
    /\ text[Len(text) - 1] = " "
    /\ text[Len(text)] \in DigitLexemes \cup SignedLexemes
    /\ \A i \in 1..Len(text) : "LIMIT" \in Marks(text[i]) => i = Len(text) - 2

\* C22: _execute_mock_query takes as limit L the integer token that follows
\* 'limit' in the text, and 10 when 'limit' is absent or the token after it is
\* not an integer; in every branch it returns the first L rows of the branch's
\* filtered and sorted rows, so never more than L rows.
C22_MockLimitTruncation ==
    out # <<>> =>
        LET L == mock_limit(arg.sql) IN
        /\ ~Contains(arg.sql, "LIMIT") => L = 10
        /\ EndsWithOneLimit(arg.sql) => L = IntOf(arg.sql[Len(arg.sql)])
        /\ arg.sql[Len(arg.sql)] = ";" => L = 10
        /\ out[1] = FirstRows(BranchRows(arg.sql), L)
        /\ Len(out[1]) <= L

\* the branch a non-empty output comes from, told by the fields of its rows;
\* customer records come from the last branch when they are in stored order
BranchOf(rows) ==
    LET fields == DOMAIN rows[1] IN
    IF "total_spent" \in fields THEN "customers and transactions"
    ELSE IF "loan_type" \in fields /\ "credit_score" \in fields THEN "customers and loans"
    ELSE IF "loan_id" \in fields THEN "loans"
    ELSE IF "transaction_id" \in fields THEN "transactions"
    ELSE IF rows = SubSeq(MOCK_CUSTOMERS, 1, Len(rows)) THEN "otherwise"
    ELSE "customers"

\* the first test that holds, in the order of the claim, with word as the text
\* the fifth test looks for
RoutedBranch(text, word) ==
    IF Contains(text, "CUSTOMERS") /\ Contains(text, "TRANSACTIONS")
    THEN "customers and transactions"
    ELSE IF Contains(text, "CUSTOMERS") /\ Contains(text, "LOANS")
    THEN "customers and loans"
    ELSE IF Contains(text, "LOANS") THEN "loans"
    ELSE IF Contains(text, "TRANSACTIONS") THEN "transactions"
    ELSE IF Contains(text, word) THEN "customers"
    ELSE "otherwise"

\* what the claim says of the rows of the branches it describes
BranchContent(rows) ==
    /\ BranchOf(rows) = "customers and transactions" =>
          /\ \A i \in 1..Len(rows) :
                \E c \in Range(MOCK_CUSTOMERS) :
                    /\ rows[i].first_name = c.first_name
                    /\ rows[i].total_spent = SumAmounts(MOCK_TRANSACTIONS, c.customer_id)
                    /\ \E t \in Range(MOCK_TRANSACTIONS) :
                          t.customer_id = c.customer_id /\ t.status = "completed"
          /\ \A i \in 1..(Len(rows) - 1) : rows[i].total_spent >= rows[i + 1].total_spent
    /\ BranchOf(rows) = "customers and loans" =>
          \A i \in 1..Len(rows) :
              \E l \in Range(MOCK_LOANS), c \in Range(MOCK_CUSTOMERS) :
                  /\ l.customer_id = c.customer_id
                  /\ rows[i].loan_type = l.loan_type
                  /\ rows[i].outstanding_balance = l.outstanding_balance
                  /\ rows[i].first_name = c.first_name
                  /\ rows[i].credit_score = c.credit_score
    /\ BranchOf(rows) = "otherwise" => rows = SubSeq(MOCK_CUSTOMERS, 1, Len(rows))

\* C23 as stated: each query is handled by the branch of the first test that
\* holds, in the order customers and transactions, customers and loans, loans,
\* transactions, customers, otherwise, the fifth test being that the text
\* contains 'customers'.
C23_MockRoutingAsStated ==
    (out # <<>> /\ out[1] # <<>>) =>
        /\ BranchOf(out[1]) = RoutedBranch(arg.sql, "CUSTOMERS")
        /\ BranchContent(out[1])

\* C23, amended: each query is handled by the branch of the first test that
\* holds, in the same order, the fifth test being that the text contains
\* 'customer' (which every text containing 'customers' does); the customers
\* and transactions branch returns per-customer totals of completed
\* transactions sorted by total descending, the customers and loans branch
\* loans joined with their customer, the last branch customers in stored order.
C23_MockRouting ==
    (out # <<>> /\ out[1] # <<>>) =>
        /\ BranchOf(out[1]) = RoutedBranch(arg.sql, "CUSTOMER")
        /\ BranchContent(out[1])

C23_Witness ==
    /\ out # <<>>
    /\ out[1] # <<>>
    /\ Contains(arg.sql, "CUSTOMER")
    /\ ~Contains(arg.sql, "CUSTOMERS")
    /\ BranchOf(out[1]) = "customers"
    /\ \A i \in 1..(Len(out[1]) - 1) : out[1][i].signup_date >= out[1][i + 1].signup_date

\* the query is handled by the customers-only branch
CustomersOnly(text) ==
    /\ ~Contains(text, "TRANSACTIONS")
    /\ ~Contains(text, "LOANS")
    /\ Contains(text, "CUSTOMER")

\* C25: in the customers-only branch, when the text contains 'inactive' (and
\* not 'premium') every returned record has is_active false, and when it
\* contains 'active' but not 'inactive' (and not 'premium') every returned
\* record has is_active true.
C25_ActiveFlagKeywords ==
    (out # <<>> /\ CustomersOnly(arg.sql) /\ ~Contains(arg.sql, "PREMIUM")) =>
        /\ Contains(arg.sql, "INACTIVE") =>
              \A i \in 1..Len(out[1]) : ~out[1][i].is_active
        /\ (Contains(arg.sql, "ACTIVE") /\ ~Contains(arg.sql, "INACTIVE")) =>
              \A i \in 1..Len(out[1]) : out[1][i].is_active

\* the accepted calls among the first n of a client's calls, made at or after
\* time `since`
AcceptedSince(h, n, since) ==
    {j \in 1..n : h[j].allowed /\ h[j].t >= since}

\* the timestamps of a client's accepted calls that are at most 60 s older than
\* its latest call, in call order
RECURSIVE AcceptedStamps(_, _)
AcceptedStamps(h, since) ==
    IF h = <<>> THEN <<>>
    ELSE IF Head(h).allowed /\ Head(h).t >= since
         THEN <<Head(h).t>> \o AcceptedStamps(Tail(h), since)
         ELSE AcceptedStamps(Tail(h), since)

\* C26: for each client IP, a call returns True exactly when fewer than 10
\* accepted calls of that IP lie in the 60 seconds up to it, so that at most
\* 10 calls are accepted in any 60-second window; a refused call records
\* nothing in the tracker; and the outcomes of one IP's calls are a function of
\* that IP's own calls alone.
C26_RateLimitPerClient ==
    (arg.fn = "rate_limit_check") =>
        \A ip \in RateIps :
            LET h == out[ip] IN
            /\ \A i \in 1..Len(h) :
                  /\ h[i].allowed <=>
                        Cardinality(AcceptedSince(h, i - 1, h[i].t - RateWindow)) < RateLimit
                  /\ Cardinality({j \in i..Len(h) :
                        h[j].allowed /\ h[j].t <= h[i].t + RateWindow}) <= RateLimit
            /\ h # <<>> =>
                  request_tracker[ip] = AcceptedStamps(h, h[Len(h)].t - RateWindow)
            /\ h = <<>> => request_tracker[ip] = <<>>

\* ip1 was refused at t = 60 after ten accepted calls at t = 0 and accepted
\* again at t = 61, while ip2 was accepted at t = 60
C26_Witness ==
    /\ arg.fn = "rate_limit_check"
    /\ Len(out["ip1"]) = 12
    /\ \A i \in 1..10 : out["ip1"][i] = [t |-> 0, allowed |-> TRUE]
    /\ out["ip1"][11] = [t |-> 60, allowed |-> FALSE]
    /\ out["ip1"][12] = [t |-> 61, allowed |-> TRUE]
    /\ out["ip2"] = <<[t |-> 60, allowed |-> TRUE]>>
    /\ request_tracker["ip1"] = <<61>>

\* C24: for every validated and normalized query and every backend, the
\* sequence execute_sql returns has at most MAX_ROWS rows, whether it comes
\* from a live engine or from the mock simulator.
C24_ResultSizeBounded ==
    (arg.fn = "execute_sql" /\ out # <<>>) => Len(out[1]) <= MAX_ROWS

====
